---- MODULE Spec2Model ----
(***************************************************************************)
(* Model of sistema_difuso.py: the driver (__main__), the data loader      *)
(* cargar_datos_agricolas, and ejecutar_simulacion, which clips the crisp  *)
(* inputs, builds the fuzzy variables and the six rules, assigns the three *)
(* inputs and runs the Mamdani inference (ControlSystemSimulation.compute) *)
(* with centroid defuzzification.                                          *)
(*                                                                         *)
(* Numbers: crisp inputs are integers (degrees Celsius, percent).          *)
(* Membership degrees are fixed-point, YS units = degree 1.  Points of the *)
(* output universe are fixed-point, XS units = 1 degree Celsius.  With     *)
(* integer inputs every degree, every cut and every interpolated point of  *)
(* the output universe is exact in this representation.                    *)
(***************************************************************************)
EXTENDS Integers, Sequences, FiniteSets, TLC

VARIABLES
    pc,                \* position of the program
    dataset,           \* the file at dataset_path, as the file system holds it
    etapa_arg,         \* the etapa argument of ejecutar_simulacion
    temp_ambiente,     \* local of ejecutar_simulacion
    humedad_suelo,     \* local of ejecutar_simulacion
    etapa_crecimiento, \* local of ejecutar_simulacion
    rules,             \* the rule list handed to ctrl.ControlSystem
    input,             \* simulador.input: antecedent label -> crisp value
    cuts,              \* term.membership_value of the consequent's terms
    output_mf,         \* aggregated curve over the (upsampled) output universe
    output,            \* simulador.output: consequent label -> crisp value
    err,               \* the exception that ended the run, "none" if none
    console            \* what has been printed

vars == <<pc, dataset, etapa_arg, temp_ambiente, humedad_suelo,
          etapa_crecimiento, rules, input, cuts, output_mf, output, err,
          console>>

----------------------------------------------------------------------------
(* Bounds of the model *)

\* how far beyond a universe's ends the raw values of the model reach
MaxOver == 10

----------------------------------------------------------------------------
(* Fixed-point representation *)

YS == 120
XS == 12

Min(a, b) == IF a <= b THEN a ELSE b
Max(a, b) == IF a >= b THEN a ELSE b

----------------------------------------------------------------------------
(* Values a column mean, an argument or a local can hold *)

Num(v) == [k |-> "num", v |-> v]
NaN == [k |-> "nan", v |-> 0]
Text == [k |-> "text", v |-> 0]
Unset == [k |-> "unset", v |-> 0]

IsNum(x) == x.k = "num"

----------------------------------------------------------------------------
(* cargar_datos_agricolas *)

\* variant: a default temperature outside the support of 'optima'
DefaultTempCold == 25 - 20

DefaultTemp == 25
DefaultHumedad == 60

Columns == {"temperature", "humidity", "Temperature", "Soil Moisture"}

\* df[c].mean(): KeyError when the column is absent, TypeError when the
\* column is not numeric, NaN when it holds no value
MeanRaises(df, c) == df[c].k \in {"unset", "text"}

Defaults == [temp |-> Num(DefaultTemp), humedad |-> Num(DefaultHumedad)]

\* variant: the Agricultural Soil schema tested before the Crop
\* Recommendation schema
CargarDatosAgricolasSoilFirst(file) ==
    IF file.state # "ok"
    THEN [ret |-> Defaults, msg |-> "error_al_cargar"]
    ELSE LET df == file.cols IN
         IF df["Soil Moisture"].k # "unset"
         THEN IF MeanRaises(df, "Temperature") \/ MeanRaises(df, "Soil Moisture")
              THEN [ret |-> Defaults, msg |-> "error_al_cargar"]
              ELSE [ret |-> [temp |-> df["Temperature"],
                             humedad |-> df["Soil Moisture"]],
                    msg |-> "agricultural_soil"]
         ELSE IF df["temperature"].k # "unset"
         THEN IF MeanRaises(df, "temperature") \/ MeanRaises(df, "humidity")
              THEN [ret |-> Defaults, msg |-> "error_al_cargar"]
              ELSE [ret |-> [temp |-> df["temperature"],
                             humedad |-> df["humidity"]],
                    msg |-> "crop_recommendation"]
         ELSE [ret |-> Defaults, msg |-> "formato_no_reconocido"]

\* The value returned for a file, and the message of the branch taken
CargarDatosAgricolas(file) ==
    IF file.state # "ok"
    THEN [ret |-> Defaults, msg |-> "error_al_cargar"]
    ELSE LET df == file.cols IN
         IF df["temperature"].k # "unset"
         THEN IF MeanRaises(df, "temperature") \/ MeanRaises(df, "humidity")
              THEN [ret |-> Defaults, msg |-> "error_al_cargar"]
              ELSE [ret |-> [temp |-> df["temperature"],
                             humedad |-> df["humidity"]],
                    msg |-> "crop_recommendation"]
         ELSE IF df["Soil Moisture"].k # "unset"
         THEN IF MeanRaises(df, "Temperature") \/ MeanRaises(df, "Soil Moisture")
              THEN [ret |-> Defaults, msg |-> "error_al_cargar"]
              ELSE [ret |-> [temp |-> df["Temperature"],
                             humedad |-> df["Soil Moisture"]],
                    msg |-> "agricultural_soil"]
         ELSE [ret |-> Defaults, msg |-> "formato_no_reconocido"]

----------------------------------------------------------------------------
(* configurar_sistema_difuso: universes and membership functions *)

Antecedents == {"humedad", "temperatura", "etapa"}

Universe(var) ==
    CASE var = "humedad" -> [lo |-> 0, hi |-> 100]
      [] var = "temperatura" -> [lo |-> 0, hi |-> 50]
      [] var = "etapa" -> [lo |-> 0, hi |-> 100]
      [] var = "optima" -> [lo |-> 10, hi |-> 40]

Samples(var) == Universe(var).lo .. Universe(var).hi

TermParams(var, term) ==
    CASE var = "humedad" /\ term = "baja" -> <<0, 0, 30, 50>>
      [] var = "humedad" /\ term = "media" -> <<30, 50, 70, 90>>
      [] var = "humedad" /\ term = "alta" -> <<70, 90, 100, 100>>
      [] var = "temperatura" /\ term = "fria" -> <<0, 0, 10, 20>>
      [] var = "temperatura" /\ term = "optima" -> <<10, 20, 30, 40>>
      [] var = "temperatura" /\ term = "caliente" -> <<30, 40, 50, 50>>
      [] var = "etapa" /\ term = "inicial" -> <<0, 0, 30, 60>>
      [] var = "etapa" /\ term = "final" -> <<40, 70, 100, 100>>
      [] var = "optima" /\ term = "enfriar" -> <<10, 10, 15, 25>>
      [] var = "optima" /\ term = "mantener" -> <<15, 25, 30, 35>>
      [] var = "optima" /\ term = "calentar" -> <<30, 35, 40, 40>>

\* variant: a triangle without the assignment of 1 at its peak, so that a
\* vertical edge has degree 0
TrimfNoPeak(x, a, b, c) ==
    IF a # b /\ a < x /\ x < b THEN ((x - a) * YS) \div (b - a)
    ELSE IF b # c /\ b < x /\ x < c THEN ((c - x) * YS) \div (c - b)
    ELSE IF x = b /\ a # b /\ b # c THEN YS
    ELSE 0

\* fuzz.trimf(x, [a, b, c]) at one sample point x
Trimf(x, a, b, c) ==
    IF x = b THEN YS
    ELSE IF a # b /\ a < x /\ x < b THEN ((x - a) * YS) \div (b - a)
    ELSE IF b # c /\ b < x /\ x < c THEN ((c - x) * YS) \div (c - b)
    ELSE 0

\* fuzz.trapmf(x, [a, b, c, d]) at one sample point x
Trapmf(x, p) ==
    LET a == p[1]
        b == p[2]
        c == p[3]
        d == p[4]
        y1 == IF x <= b THEN Trimf(x, a, b, b) ELSE YS
        y2 == IF x >= c THEN Trimf(x, c, c, d) ELSE y1
        y3 == IF x < a THEN 0 ELSE y2
    IN  IF x > d THEN 0 ELSE y3

\* the sampled membership array of a term, var[term].mf, at sample point x
Mf(var, term, x) == Trapmf(x, TermParams(var, term))

\* fuzz.interp_membership(universe, mf, X / XS): linear between the samples
InterpMembership(var, term, X) ==
    LET i == X \div XS
        r == X - XS * i
        p == TermParams(var, term)
    IN  IF r = 0 THEN Trapmf(i, p)
        ELSE Trapmf(i, p) + (r * (Trapmf(i + 1, p) - Trapmf(i, p))) \div XS

----------------------------------------------------------------------------
(* crear_reglas *)

Rule(ante, cons) == [ante |-> ante, cons |-> cons]

\* variant: the growth-stage rule written on etapa['final']
CrearReglasEtapaFinal ==
    << Rule(<< <<"humedad", "baja">>, <<"temperatura", "fria">> >>, "calentar"),
       Rule(<< <<"humedad", "media">>, <<"temperatura", "optima">> >>, "mantener"),
       Rule(<< <<"humedad", "alta">>, <<"temperatura", "caliente">> >>, "enfriar"),
       Rule(<< <<"etapa", "final">> >>, "mantener"),
       Rule(<< <<"etapa", "final">>, <<"temperatura", "caliente">> >>, "enfriar"),
       Rule(<< <<"temperatura", "optima">> >>, "mantener") >>

CrearReglas ==
    << Rule(<< <<"humedad", "baja">>, <<"temperatura", "fria">> >>, "calentar"),
       Rule(<< <<"humedad", "media">>, <<"temperatura", "optima">> >>, "mantener"),
       Rule(<< <<"humedad", "alta">>, <<"temperatura", "caliente">> >>, "enfriar"),
       Rule(<< <<"etapa", "inicial">> >>, "mantener"),
       Rule(<< <<"etapa", "final">>, <<"temperatura", "caliente">> >>, "enfriar"),
       Rule(<< <<"temperatura", "optima">> >>, "mantener") >>

----------------------------------------------------------------------------
(* ejecutar_simulacion: validation of the inputs *)

\* np.clip(x, lo, hi) = minimum(hi, maximum(x, lo)); NaN propagates
NpClip(x, lo, hi) ==
    IF IsNum(x) THEN Num(Min(hi, Max(x.v, lo))) ELSE x

----------------------------------------------------------------------------
(* ctrl.ControlSystemSimulation *)

\* simulador.input[var] = x.  The simulation clips the value into the
\* universe with np.fmin / np.fmax, which drop a NaN operand (the value
\* becomes the universe maximum); a build without that clipping stores the
\* NaN as it is.
InputAccept(var, x) ==
    IF IsNum(x)
    THEN {Num(Max(Min(x.v, Universe(var).hi), Universe(var).lo))}
    ELSE {Num(Universe(var).hi), x}

\* fuzzification of one leaf: the degree of input[var] in var[term]
LeafDegree(inp, leaf) == InterpMembership(leaf[1], leaf[2], XS * inp[leaf[1]].v)

\* the antecedent of a rule: its leaves joined by & (np.fmin)
RECURSIVE AndAll(_, _)
AndAll(inp, leaves) ==
    IF Len(leaves) = 1 THEN LeafDegree(inp, leaves[1])
    ELSE Min(LeafDegree(inp, leaves[1]), AndAll(inp, Tail(leaves)))

\* rule.aggregate_firing
Firing(inp, rule) == AndAll(inp, rule.ante)

EmptyMap == [t \in {} |-> 0]

\* compute_rule, first half: the firing strength of every rule, in order,
\* with the consequent term it activates
FireAll(rs, inp) ==
    [i \in 1 .. Len(rs) |-> [cons |-> rs[i].cons, s |-> Firing(inp, rs[i])]]

\* variant: a later rule overwrites the membership value of its term
RECURSIVE AccumulateLastWins(_, _)
AccumulateLastWins(fs, acc) ==
    IF fs = <<>> THEN acc
    ELSE LET f == Head(fs)
         IN  AccumulateLastWins(Tail(fs),
                                [t \in DOMAIN acc \cup {f.cons} |->
                                    IF t = f.cons THEN f.s ELSE acc[t]])

\* compute_rule, second half, for the rules in order: the activation is
\* accumulated into the membership value of the consequent term (np.fmax);
\* a term no rule targets keeps no membership value
RECURSIVE Accumulate(_, _)
Accumulate(fs, acc) ==
    IF fs = <<>> THEN acc
    ELSE LET f == Head(fs)
             v == IF f.cons \in DOMAIN acc THEN Max(f.s, acc[f.cons]) ELSE f.s
         IN  Accumulate(Tail(fs),
                        [t \in DOMAIN acc \cup {f.cons} |->
                            IF t = f.cons THEN v ELSE acc[t]])

\* _interp_universe_fast(universe, mf, y): the points where the sampled
\* membership function crosses the level y
InterpUniverse(term, y) ==
    LET mf == [x \in Samples("optima") |-> Mf("optima", term, x)]
        above(i) == IF y = 0 THEN mf[i] > y ELSE mf[i] >= y
        lo == Universe("optima").lo
        hi == Universe("optima").hi
    IN  { XS * i + (XS * (y - mf[i])) \div (mf[i + 1] - mf[i]) :
            i \in { j \in lo .. (hi - 1) : above(j) # above(j + 1) } }

\* find_memberships: the universe, upsampled with every term's cut points
NewUniverse(c) ==
    { XS * x : x \in Samples("optima") }
      \cup UNION { InterpUniverse(t, c[t]) : t \in DOMAIN c }

\* find_memberships: output_mf at one point, the maximum over the terms
\* of the term's membership clipped at its cut
RECURSIVE MaxClipped(_, _, _)
MaxClipped(c, ts, X) ==
    IF ts = {} THEN 0
    ELSE LET t == CHOOSE u \in ts : TRUE
         IN  Max(Min(c[t], InterpMembership("optima", t, X)),
                 MaxClipped(c, ts \ {t}, X))

OutputMf(c) == [X \in NewUniverse(c) |-> MaxClipped(c, DOMAIN c, X)]

\* variant: the moment of a segment taken from the segment's start, the
\* offset x1 forgotten
MomentArea6NoOffset(x1, y1, x2, y2) ==
    LET dx == x2 - x1 IN
    IF (y1 = 0 /\ y2 = 0) \/ x1 = x2 THEN 0
    ELSE IF y1 = y2 THEN 3 * dx * dx * y1
    ELSE IF y1 = 0 THEN 2 * dx * dx * y2
    ELSE IF y2 = 0 THEN dx * dx * y1
    ELSE dx * dx * (2 * y2 + y1)

\* fuzz.centroid: six times moment * area of one segment of the curve
MomentArea6(x1, y1, x2, y2) ==
    LET dx == x2 - x1 IN
    IF (y1 = 0 /\ y2 = 0) \/ x1 = x2 THEN 0
    ELSE IF y1 = y2 THEN 3 * (x1 + x2) * dx * y1
    ELSE IF y1 = 0 THEN (2 * dx + 3 * x1) * dx * y2
    ELSE IF y2 = 0 THEN (dx + 3 * x1) * dx * y1
    ELSE dx * dx * (2 * y2 + y1) + 3 * x1 * dx * (y1 + y2)

\* fuzz.centroid: six times the area of one segment
Area6(x1, y1, x2, y2) ==
    IF (y1 = 0 /\ y2 = 0) \/ x1 = x2 THEN 0
    ELSE 3 * (x2 - x1) * (y1 + y2)

\* the point of the universe that follows the point prev
NextPoint(mf, prev) ==
    CHOOSE q \in (prev + 1) .. (prev + XS) :
        /\ q \in DOMAIN mf
        /\ \A p \in (prev + 1) .. (q - 1) : p \notin DOMAIN mf

\* fuzz.centroid(x, mfx): the loop over consecutive points of the universe;
\* the result is the fraction num / den, in degrees Celsius
RECURSIVE CentroidLoop(_, _, _, _)
CentroidLoop(mf, prev, num, den) ==
    IF prev >= XS * Universe("optima").hi THEN [num |-> num, den |-> XS * den]
    ELSE LET X == NextPoint(mf, prev)
         IN  CentroidLoop(mf, X,
                          num + MomentArea6(prev, mf[prev], X, mf[X]),
                          den + Area6(prev, mf[prev], X, mf[X]))

Centroid(mf) == CentroidLoop(mf, XS * Universe("optima").lo, 0, 0)

\* fuzz.defuzz: the total of the curve is zero
ZeroTruthDegree(mf) == \A X \in DOMAIN mf : mf[X] = 0

----------------------------------------------------------------------------
(* The files and arguments of the model *)

HumedadRaw ==
    {0 - MaxOver, 0, 20, 30, 35, 40, 50, 60, 70, 80, 90, 100, 100 + MaxOver}

TemperaturaRaw ==
    {0 - MaxOver, 0, 5, 10, 13, 15, 20, 25, 30, 35, 40, 50, 50 + MaxOver}

EtapaRaw == {0 - MaxOver, 0, 30, 40, 45, 55, 60, 75, 100, 100 + MaxOver}

Frame(t1, h1, t2, h2) ==
    [state |-> "ok",
     cols |-> [c \in Columns |->
                 CASE c = "temperature" -> t1
                   [] c = "humidity" -> h1
                   [] c = "Temperature" -> t2
                   [] c = "Soil Moisture" -> h2]]

NoFrame == [c \in Columns |-> Unset]

\* the files: missing; unreadable; the two schemas over the raw values; and
\* every combination of present, absent, empty and non-numeric columns
Datasets ==
    {[state |-> "absent", cols |-> NoFrame],
     [state |-> "corrupt", cols |-> NoFrame]}
    \cup { Frame(t, h, Unset, Unset) :
             t \in {Num(v) : v \in TemperaturaRaw} \cup {NaN},
             h \in {Num(v) : v \in HumedadRaw} \cup {NaN} }
    \cup { Frame(Unset, Unset, Num(t), Num(h)) :
             t \in {5, 25, 45}, h \in {20, 60, 100} }
    \cup { Frame(t1, h1, t2, h2) :
             t1 \in {Unset, Num(5), Text}, h1 \in {Unset, Num(100), NaN},
             t2 \in {Unset, Num(35), NaN}, h2 \in {Unset, Num(80), Text} }

----------------------------------------------------------------------------
(* The program *)

Init ==
    /\ pc = "main"
    /\ dataset \in Datasets
    /\ etapa_arg = Unset
    /\ temp_ambiente = Unset
    /\ humedad_suelo = Unset
    /\ etapa_crecimiento = Unset
    /\ rules = <<>>
    /\ input = EmptyMap
    /\ cuts = EmptyMap
    /\ output_mf = EmptyMap
    /\ output = EmptyMap
    /\ err = "none"
    /\ console = {}

\* variant: the existence check always succeeds
PathExistsAlways(file) == file.state = file.state

\* os.path.exists(dataset_path)
PathExists(file) == file.state # "absent"

\* __main__: os.path.exists(dataset_path) is false
MainMissing ==
    /\ pc = "main"
    /\ ~PathExists(dataset)
    /\ console' = console \cup {"no_se_encontro_el_archivo"}
    /\ pc' = "exit"
    /\ UNCHANGED <<dataset, etapa_arg, temp_ambiente, humedad_suelo,
                   etapa_crecimiento, rules, input, cuts, output_mf, output,
                   err>>

\* __main__: the file exists; ejecutar_simulacion(cultivo, dataset_path, etapa)
MainRun ==
    /\ pc = "main"
    /\ PathExists(dataset)
    /\ \E e \in EtapaRaw : etapa_arg' = Num(e)
    /\ console' = console \cup {"simulacion_para_cultivo"}
    /\ pc' = "cargar"
    /\ UNCHANGED <<dataset, temp_ambiente, humedad_suelo, etapa_crecimiento,
                   rules, input, cuts, output_mf, output, err>>

\* temp_ambiente, humedad_suelo = cargar_datos_agricolas(filepath)
CargarDatos ==
    /\ pc = "cargar"
    /\ LET r == CargarDatosAgricolas(dataset) IN
        /\ temp_ambiente' = r.ret.temp
        /\ humedad_suelo' = r.ret.humedad
        /\ console' = console \cup {r.msg}
    /\ pc' = "clip"
    /\ UNCHANGED <<dataset, etapa_arg, etapa_crecimiento, rules, input, cuts,
                   output_mf, output, err>>

\* the three np.clip calls
Validar ==
    /\ pc = "clip"
    /\ etapa_crecimiento' =
         NpClip(etapa_arg, Universe("etapa").lo, Universe("etapa").hi)
    /\ temp_ambiente' =
         NpClip(temp_ambiente, Universe("temperatura").lo,
                Universe("temperatura").hi)
    /\ humedad_suelo' =
         NpClip(humedad_suelo, Universe("humedad").lo, Universe("humedad").hi)
    /\ console' = console \cup {"entradas_del_sistema"}
    /\ pc' = "configurar"
    /\ UNCHANGED <<dataset, etapa_arg, rules, input, cuts, output_mf, output,
                   err>>

\* configurar_sistema_difuso, crear_reglas, ControlSystem and
\* ControlSystemSimulation
Configurar ==
    /\ pc = "configurar"
    /\ rules' = CrearReglas
    /\ pc' = "input_humedad"
    /\ UNCHANGED <<dataset, etapa_arg, temp_ambiente, humedad_suelo,
                   etapa_crecimiento, input, cuts, output_mf, output, err,
                   console>>

SetInput(var, x) ==
    \E v \in InputAccept(var, x) :
        input' = [a \in DOMAIN input \cup {var} |->
                    IF a = var THEN v ELSE input[a]]

\* simulador.input['humedad'] = humedad_suelo
AsignarHumedad ==
    /\ pc = "input_humedad"
    /\ SetInput("humedad", humedad_suelo)
    /\ pc' = "input_temperatura"
    /\ UNCHANGED <<dataset, etapa_arg, temp_ambiente, humedad_suelo,
                   etapa_crecimiento, rules, cuts, output_mf, output, err,
                   console>>

\* simulador.input['temperatura'] = temp_ambiente
AsignarTemperatura ==
    /\ pc = "input_temperatura"
    /\ SetInput("temperatura", temp_ambiente)
    /\ pc' = "input_etapa"
    /\ UNCHANGED <<dataset, etapa_arg, temp_ambiente, humedad_suelo,
                   etapa_crecimiento, rules, cuts, output_mf, output, err,
                   console>>

\* simulador.input['etapa'] = etapa_crecimiento
AsignarEtapa ==
    /\ pc = "input_etapa"
    /\ SetInput("etapa", etapa_crecimiento)
    /\ pc' = "compute"
    /\ UNCHANGED <<dataset, etapa_arg, temp_ambiente, humedad_suelo,
                   etapa_crecimiento, rules, cuts, output_mf, output, err,
                   console>>

\* the antecedents of the control system: those the rules refer to
RuleAntecedents(rs) ==
    UNION { { rs[i].ante[j][1] : j \in 1 .. Len(rs[i].ante) } :
              i \in 1 .. Len(rs) }

\* compute(), once every antecedent has a numeric input: the rules, the
\* aggregation and the defuzzification
ComputeChecked(rs, inp) ==
    LET c == Accumulate(FireAll(rs, inp), EmptyMap)
        mf == OutputMf(c)
    IN  IF ZeroTruthDegree(mf)
        THEN [err |-> "crisp_output_cannot_be_calculated", cuts |-> c,
              output_mf |-> mf, output |-> EmptyMap]
        ELSE [err |-> "none", cuts |-> c, output_mf |-> mf,
              output |-> [v \in {"optima"} |-> Centroid(mf)]]

\* variant: an antecedent without input is given the minimum of its universe
ComputeOutcomeDefaulting(rs, inp) ==
    ComputeChecked(rs, [a \in Antecedents |->
                          IF a \in DOMAIN inp /\ IsNum(inp[a]) THEN inp[a]
                          ELSE Num(Universe(a).lo)])

\* simulador.compute(): ValueError when an antecedent has no input; a NaN
\* input cannot be fuzzified
ComputeOutcome(rs, inp) ==
    IF \E a \in RuleAntecedents(rs) : a \notin DOMAIN inp
    THEN [err |-> "antecedent_without_input", cuts |-> EmptyMap,
          output_mf |-> EmptyMap, output |-> EmptyMap]
    ELSE IF \E a \in RuleAntecedents(rs) : ~IsNum(inp[a])
    THEN [err |-> "nan_input", cuts |-> EmptyMap,
          output_mf |-> EmptyMap, output |-> EmptyMap]
    ELSE ComputeChecked(rs, inp)

Compute ==
    /\ pc = "compute"
    /\ LET r == ComputeOutcome(rules, input) IN
        /\ err' = r.err
        /\ cuts' = r.cuts
        /\ output_mf' = r.output_mf
        /\ output' = r.output
        /\ pc' = IF r.err = "none" THEN "report" ELSE "raised"
    /\ UNCHANGED <<dataset, etapa_arg, temp_ambiente, humedad_suelo,
                   etapa_crecimiento, rules, input, console>>

\* temp_optima = simulador.output['optima'] and the report
Reportar ==
    /\ pc = "report"
    /\ console' = console \cup {"temperatura_optima_objetivo"}
    /\ pc' = "exit"
    /\ UNCHANGED <<dataset, etapa_arg, temp_ambiente, humedad_suelo,
                   etapa_crecimiento, rules, input, cuts, output_mf, output,
                   err>>

Next ==
    \/ MainMissing
    \/ MainRun
    \/ CargarDatos
    \/ Validar
    \/ Configurar
    \/ AsignarHumedad
    \/ AsignarTemperatura
    \/ AsignarEtapa
    \/ Compute
    \/ Reportar

Spec == Init /\ [][Next]_vars

----------------------------------------------------------------------------
(* The simulation object used on its own: compute() called on a simulation *)
(* of the six rules in which any subset of the inputs has been assigned     *)

SimInputs ==
    UNION { [S -> {Num(5), Num(20), Num(75)}] : S \in SUBSET Antecedents }

InitSim ==
    /\ pc = "compute"
    /\ dataset = [state |-> "none", cols |-> NoFrame]
    /\ etapa_arg = Unset
    /\ temp_ambiente = Unset
    /\ humedad_suelo = Unset
    /\ etapa_crecimiento = Unset
    /\ rules = CrearReglas
    /\ input \in SimInputs
    /\ cuts = EmptyMap
    /\ output_mf = EmptyMap
    /\ output = EmptyMap
    /\ err = "none"
    /\ console = {}

InitEngine == Init \/ InitSim

SpecEngine == InitEngine /\ [][Next]_vars

----------------------------------------------------------------------------
(* Properties *)

\* compute() has run in this state
Computed == pc \in {"report", "raised"}

\* compute() has run on three numeric inputs
Inferred ==
    /\ Computed
    /\ DOMAIN input = Antecedents
    /\ \A a \in Antecedents : IsNum(input[a])

\* the firing strength of rule i as the minimum of its leaves' degrees, the
\* degrees read from the sampled membership arrays
Strength(i) ==
    LET leaves == rules[i].ante
        deg(j) == Mf(leaves[j][1], leaves[j][2], input[leaves[j][1]].v)
    IN  IF Len(leaves) = 1 THEN deg(1) ELSE Min(deg(1), deg(2))

NoRuleFired == \A i \in 1 .. Len(rules) : Strength(i) = 0

\* a value no centroid yields: the denominator of a centroid is positive
UndefinedOutput == [num |-> 0, den |-> 0]

\* C1: whenever compute() has run on (numeric) inputs for which every rule
\* has firing strength 0, the call has completed and output['optima'] holds
\* the explicit UndefinedOutput marker
C1_NoRuleFiredYieldsMarker ==
    (Inferred /\ NoRuleFired /\ IsNum(humedad_suelo) /\ IsNum(temp_ambiente)) =>
        /\ err = "none"
        /\ pc # "raised"
        /\ "optima" \in DOMAIN output
        /\ output["optima"] = UndefinedOutput

\* the value cargar_datos_agricolas returned for the file
Loaded == CargarDatosAgricolas(dataset).ret

\* the degrees of every set of an antecedent at a crisp value of its universe
Degrees(var, v) ==
    LET terms == CASE var = "humedad" -> {"baja", "media", "alta"}
                   [] var = "temperatura" -> {"fria", "optima", "caliente"}
                   [] var = "etapa" -> {"inicial", "final"}
    IN  [t \in terms |-> Mf(var, t, v)]

Validated == pc \notin {"main", "cargar", "clip"} /\ etapa_crecimiento # Unset

\* one antecedent: the value handed to the engine lies in the universe, and
\* a raw value beyond an end of the universe has the degrees of that end
ClampedLike(var, raw, handed) ==
    LET u == Universe(var) IN
    /\ IsNum(handed)
    /\ handed.v \in u.lo .. u.hi
    /\ (IsNum(raw) /\ raw.v > u.hi) => Degrees(var, handed.v) = Degrees(var, u.hi)
    /\ (IsNum(raw) /\ raw.v < u.lo) => Degrees(var, handed.v) = Degrees(var, u.lo)

\* C2: after the validation of the inputs, the value handed to the engine
\* for each antecedent is inside its universe, and a raw value above the
\* maximum (below the minimum) has exactly the degrees of the maximum (the
\* minimum)
C2_Clamping ==
    Validated =>
        /\ ClampedLike("humedad", Loaded.humedad, humedad_suelo)
        /\ ClampedLike("temperatura", Loaded.temp, temp_ambiente)
        /\ ClampedLike("etapa", etapa_arg, etapa_crecimiento)

\* C2, for the numeric values only: the clamping of a number
C2_ClampingOfNumbers ==
    Validated =>
        /\ IsNum(Loaded.humedad) =>
             ClampedLike("humedad", Loaded.humedad, humedad_suelo)
        /\ IsNum(Loaded.temp) =>
             ClampedLike("temperatura", Loaded.temp, temp_ambiente)
        /\ ClampedLike("etapa", etapa_arg, etapa_crecimiento)

Has(file, c) == file.cols[c].k # "unset"

Means(file, ct, ch) == [temp |-> file.cols[ct], humedad |-> file.cols[ch]]

AllNumeric(file) == \A c \in Columns : file.cols[c].k \in {"num", "unset"}

\* C3 as stated: the defaults on a read failure, on a file with neither
\* marker column, and on a file that has the marker column of a schema
\* without its partner column; otherwise the means of the first matching
\* schema (checked on the files whose columns all have a numeric mean)
C3_LoaderAsStated ==
    (pc = "clip" /\ AllNumeric(dataset)) =>
        LET got == [temp |-> temp_ambiente, humedad |-> humedad_suelo]
            f == dataset
        IN  IF \/ f.state # "ok"
               \/ ~Has(f, "temperature") /\ ~Has(f, "Soil Moisture")
               \/ Has(f, "temperature") /\ ~Has(f, "humidity")
               \/ Has(f, "Soil Moisture") /\ ~Has(f, "Temperature")
            THEN got = Defaults
            ELSE IF Has(f, "temperature")
            THEN got = Means(f, "temperature", "humidity")
            ELSE got = Means(f, "Temperature", "Soil Moisture")

\* the schema the loader selects: the first whose marker column is present
Selected(f) ==
    IF Has(f, "temperature") THEN <<"temperature", "humidity">>
    ELSE IF Has(f, "Soil Moisture") THEN <<"Temperature", "Soil Moisture">>
    ELSE <<>>

\* C3, amended: the defaults on a read failure, on a file with neither
\* marker column, and on a file whose selected schema (the first whose
\* marker column is present) lacks its partner column or has a column that
\* cannot be averaged; otherwise the means of the selected schema
C3_LoaderSelectedSchema ==
    pc = "clip" =>
        LET got == [temp |-> temp_ambiente, humedad |-> humedad_suelo]
            f == dataset
            sel == Selected(f)
        IN  IF \/ f.state # "ok"
               \/ sel = <<>>
               \/ \E i \in 1 .. Len(sel) : f.cols[sel[i]].k \in {"unset", "text"}
            THEN got = Defaults
            ELSE got = Means(f, sel[1], sel[2])

C3_Witness ==
    /\ pc = "clip"
    /\ dataset.state = "ok"
    /\ Has(dataset, "temperature") /\ Has(dataset, "humidity")
    /\ Has(dataset, "Soil Moisture") /\ ~Has(dataset, "Temperature")
    /\ AllNumeric(dataset)
    /\ temp_ambiente = dataset.cols["temperature"]
    /\ humedad_suelo = dataset.cols["humidity"]

\* C4: the simulation (data load, rule base, input assignment, compute) is
\* entered only when the existence check succeeded; when the file is missing
\* the driver prints the guidance and nothing else ever happens
C4_InferenceOnlyAfterExists ==
    /\ (pc # "main" /\ dataset.state = "absent") =>
          /\ pc = "exit"
          /\ console = {"no_se_encontro_el_archivo"}
          /\ temp_ambiente = Unset /\ humedad_suelo = Unset
          /\ etapa_crecimiento = Unset
          /\ rules = <<>>
          /\ input = EmptyMap /\ cuts = EmptyMap /\ output = EmptyMap
    /\ (pc \notin {"main", "exit"} \/ rules # <<>> \/ temp_ambiente # Unset) =>
          /\ dataset.state # "absent"
          /\ "simulacion_para_cultivo" \in console

C4_Witness ==
    /\ pc = "exit"
    /\ dataset.state = "absent"
    /\ console = {"no_se_encontro_el_archivo"}

\* C5: compute() on a simulation in which an antecedent the rules refer to
\* has no input raises, leaves the outputs empty and aggregates nothing; a
\* compute() that completes had all three inputs; and in ejecutar_simulacion
\* compute() is reached only with the loader's values returned and all three
\* inputs assigned
C5_MissingInput ==
    /\ (Computed /\ DOMAIN input # Antecedents) =>
          /\ pc = "raised"
          /\ err = "antecedent_without_input"
          /\ output = EmptyMap /\ cuts = EmptyMap /\ output_mf = EmptyMap
    /\ err = "antecedent_without_input" => DOMAIN input # Antecedents
    /\ (pc = "compute" /\ "simulacion_para_cultivo" \in console) =>
          /\ DOMAIN input = Antecedents
          /\ temp_ambiente # Unset /\ humedad_suelo # Unset

C5_Witness ==
    /\ pc = "raised"
    /\ err = "antecedent_without_input"
    /\ DOMAIN input = {"humedad", "temperatura"}
    /\ output = EmptyMap

\* every order of the six rules
RuleOrders == Permutations(1 .. Len(CrearReglas))

Permuted(rs, p) == [i \in 1 .. Len(rs) |-> rs[p[i]]]

\* max over the rules of min(firing strength, consequent set at x)
RECURSIVE MaxOverRules(_, _)
MaxOverRules(i, x) ==
    IF i = 0 THEN 0
    ELSE Max(Min(Strength(i), Mf("optima", rules[i].cons, x)),
             MaxOverRules(i - 1, x))

\* C6: at every sample point x of 10..40 the aggregated degree equals the
\* maximum over the six rules of min(firing strength, membership of the
\* rule's consequent set at x), and every permutation of the rule list
\* accumulates the same cuts, hence the same aggregated curve
C6_Aggregation ==
    Inferred =>
        /\ \A x \in Samples("optima") :
              output_mf[XS * x] = MaxOverRules(Len(rules), x)
        /\ LET fs == FireAll(rules, input) IN
           \A p \in RuleOrders : Accumulate(Permuted(fs, p), EmptyMap) = cuts

C6_Witness ==
    /\ Inferred
    /\ Strength(2) > 0 /\ Strength(4) > 0 /\ Strength(6) > 0
    /\ Strength(5) > 0 /\ Strength(3) > Strength(5)
    /\ output_mf[XS * 20] > 0

\* trapezoid(30, 35, 40, 40), as the shape defines it
CalentarDegree(x) ==
    IF x <= 30 THEN 0
    ELSE IF x < 35 THEN ((x - 30) * YS) \div 5
    ELSE YS

\* |num/den - 325/9| <= 1, 325/9 the centroid of trapezoid(30, 35, 40, 40)
NearTrapezoidCentroid(c) ==
    /\ c.den > 0
    /\ 9 * c.num - 325 * c.den <= 9 * c.den
    /\ 325 * c.den - 9 * c.num <= 9 * c.den

\* C7: with humidity 20 and temperature 5 the rule baja AND fria -> calentar
\* alone has both leaf degrees 1 and firing strength 1, aggregates to the
\* set calentar at every sample point (degree 1 at x = 40), and its crisp
\* output is within one sample step of the centroid of the trapezoid; the
\* six rules give the same output when the growth stage is 60 or more
C7_EndToEnd ==
    (Inferred /\ input["humedad"].v = 20 /\ input["temperatura"].v = 5) =>
        LET r == ComputeOutcome(<<rules[1]>>, input) IN
        /\ LeafDegree(input, <<"humedad", "baja">>) = YS
        /\ LeafDegree(input, <<"temperatura", "fria">>) = YS
        /\ Firing(input, rules[1]) = YS
        /\ r.err = "none"
        /\ \A x \in Samples("optima") : r.output_mf[XS * x] = CalentarDegree(x)
        /\ r.output_mf[XS * 40] = YS
        /\ NearTrapezoidCentroid(r.output["optima"])
        /\ input["etapa"].v >= 60 =>
              /\ output = r.output
              /\ \A x \in Samples("optima") : output_mf[XS * x] = CalentarDegree(x)

C7_Witness ==
    /\ pc = "report"
    /\ Inferred
    /\ input["humedad"].v = 20 /\ input["temperatura"].v = 5
    /\ input["etapa"].v = 75
    /\ "optima" \in DOMAIN output
    /\ NearTrapezoidCentroid(output["optima"])

\* C8: the six rules all have firing strength 0 exactly when etapa >= 60,
\* temperatura <= 10 and humedad >= 50, and compute() fails to produce an
\* output exactly then
C8_Coverage ==
    Inferred =>
        LET dead == /\ input["etapa"].v >= 60
                    /\ input["temperatura"].v <= 10
                    /\ input["humedad"].v >= 50
        IN  /\ NoRuleFired <=> dead
            /\ (\A i \in 1 .. Len(rules) : Firing(input, rules[i]) = 0) <=> dead
            /\ (err = "crisp_output_cannot_be_calculated") <=> dead

C8_Witness ==
    /\ Inferred
    /\ NoRuleFired
    /\ input["etapa"].v = 60 /\ input["temperatura"].v = 10
    /\ input["humedad"].v = 50
    /\ Strength(6) = 0

\* C9: whenever a rule fires, compute() yields a crisp value within [10, 40]
C9_OutputRange ==
    (Inferred /\ ~NoRuleFired) =>
        /\ "optima" \in DOMAIN output
        /\ output["optima"].den > 0
        /\ 10 * output["optima"].den <= output["optima"].num
        /\ output["optima"].num <= 40 * output["optima"].den

C9_Witness ==
    /\ Inferred
    /\ ~NoRuleFired
    /\ "optima" \in DOMAIN output
    /\ output["optima"].num < 20 * output["optima"].den

LoaderFellBack ==
    console \cap {"error_al_cargar", "formato_no_reconocido"} # {}

\* C10: whenever the loader returned its defaults, for every growth stage
\* the inputs handed to the engine are 25 and 60, the rule
\* temperatura['optima'] -> mantener fires with strength 1 and compute()
\* yields a numeric output
C10_FallbackInferable ==
    /\ (LoaderFellBack /\ pc = "clip") =>
          temp_ambiente = Num(25) /\ humedad_suelo = Num(60)
    /\ (LoaderFellBack /\ Computed) =>
          /\ Inferred
          /\ input["temperatura"] = Num(25) /\ input["humedad"] = Num(60)
          /\ Firing(input, rules[6]) = YS
          /\ err = "none"
          /\ "optima" \in DOMAIN output
          /\ output["optima"].den > 0

C10_Witness ==
    /\ LoaderFellBack
    /\ pc = "report"
    /\ input["etapa"].v = 100
    /\ "optima" \in DOMAIN output

====
